---- MODULE Spec2Model ----
(***************************************************************************)
(* State-machine model of src/src/client/client.ts: the SocketHandler      *)
(* (pose publisher + peer registry) together with the part of Main and of  *)
(* the scene graph it acts on.                                             *)
(*                                                                         *)
(* Numbers.  Coordinates are fixed-point integers, 100 units = 1.0, so     *)
(* that lerp(v, 0.1) is an integer computation (the quotient is truncated  *)
(* toward zero, standing for the float's rounding at the last digit).      *)
(* Orientations are restricted to rotations about one fixed axis and are   *)
(* written as the rotation angle in 1/100 rad; on that family              *)
(* Quaternion.slerp(q, 0.1) is linear in the angle as long as the two      *)
(* angles are less than pi apart, which the values below are.              *)
(*                                                                         *)
(* An optional value (a JS value that may be undefined) is a sequence of   *)
(* length 0 (undefined) or 1 (the value).                                  *)
(*                                                                         *)
(* A position is the triple of its fields x, y, z.  A payload position     *)
(* sent as an array has no such fields and is written JsonArray(v); a      *)
(* Vector3 whose coordinates are NaN is written NaNVec.                    *)
(***************************************************************************)
EXTENDS Integers, Sequences, FiniteSets, TLC

\* ------------------------------------------------------------------ bounds
\* number of requestAnimationFrame callbacks followed
MaxFrames == 1
\* number of setInterval timers followed ('id' events handled)
MaxTimers == 2
\* number of frames followed when one proxy is watched approaching its target
MaxRun == 12

\* ------------------------------------------------------------- input sets
\* transport-assigned identifiers that occur as keys of a 'clients' batch,
\* as payload of 'removeClient' and as payload of 'id'
Ids == {"p1", "p2"}

\* positions a peer reports ({x, y, z} as serialised from a Vector3)
PosA == <<200, 0, 0>>
PosB == <<0, 0, -100>>
PosVals == {PosA, PosB}
\* a position near the origin, reached within a short run of frames
PosNear == <<20, 0, 0>>

\* the same coordinates sent as a JSON array [x, y, z]: an object whose
\* numbers sit under the keys 0, 1, 2 and whose x, y and z are undefined
JsonArray(v) == <<"array", v>>
HasXYZ(p) == Len(p) = 3

\* orientations a peer reports (angle about the fixed axis, 1/100 rad)
QuatVals == {150}

\* the t field of a batch entry (the reporting peer's clock)
TVals == {0}

\* values Date.now() returns
ClockVals == {1}

Undefined == <<>>
Some(v) == <<v>>
Opt(S) == {Undefined} \cup {Some(v) : v \in S}
IsSet(o) == Len(o) = 1
Val(o) == o[1]

VARIABLES
    connected,      \* the transport has an open connection
    idPending,      \* the server's 'id' message of this connection is in flight
    myId,           \* SocketHandler.myId
    timers,         \* number of intervals started by setInterval and never cleared
    due,            \* of these, how many have yet to fire in the current period
    emitted,        \* 'update' messages emitted in the current period
    lastUpdate,     \* payload of the last 'update' emitted (optional)
    object,         \* the local Object3D: [position, quaternion]
    meshes,         \* every THREE.Mesh constructed so far, by handle 1..Len
    scene,          \* children of the THREE.Scene, in order (handles)
    clientCubes,    \* SocketHandler.clientCubes: id -> handle, 0 = undefined
    positions,      \* SocketHandler.positions: id -> optional position
    quaternions,    \* SocketHandler.quaternions: id -> optional orientation
    timestamp,      \* SocketHandler.timestamp
    pingStatsHtml,  \* innerHTML of #pingStats, as the lines <<id, ms>>
    frames,         \* animation frames run so far
    ev,             \* history: the event handled by the last step
    seen,           \* history: identifiers that were a key of some batch
    removed,        \* history: identifiers removed and not in a batch since
    lastP,          \* history: id -> last position a batch carried for a registered id
    sinceAdvance,   \* history: id -> changes of target position since the last frame (0..2)
    twin            \* a second run of the registry: same events, other t and clock values

vars == <<connected, idPending, myId, timers, due, emitted,
          lastUpdate, object, meshes, scene, clientCubes, positions,
          quaternions, timestamp, pingStatsHtml, frames, ev, seen, removed,
          lastP, sinceAdvance, twin>>

connVars == <<connected, idPending>>
pubVars == <<myId, timers, due, emitted, lastUpdate>>
regVars == <<meshes, scene, clientCubes, positions, quaternions>>
diagVars == <<timestamp, pingStatsHtml>>
histVars == <<seen, removed, lastP, sinceAdvance, twin>>

\* ------------------------------------------------------------ scene graph
\* handles of the two objects Main adds to the scene before any proxy
GridHandle == 0 - 1
ObjectHandle == 0 - 2

\* Object3D.name of a scene child: a proxy carries its identifier, the grid
\* helper and the local object keep the default name ''
NameOf(ms, h) == IF h \in 1..Len(ms) THEN ms[h].name ELSE ""

\* position of x in the sequence s, 0 if absent (Array.indexOf, shifted by 1)
RECURSIVE IndexFrom(_, _, _)
IndexFrom(s, x, i) ==
    IF i > Len(s) THEN 0
    ELSE IF s[i] = x THEN i
    ELSE IndexFrom(s, x, i + 1)

IndexOf(s, x) == IndexFrom(s, x, 1)

RemoveAt(s, i) == SubSeq(s, 1, i - 1) \o SubSeq(s, i + 1, Len(s))

\* Scene.instance.getObjectByName(name): the scene itself when its own name
\* matches (the scene's name is ''), else the first child with that name in
\* child order, else undefined.  The scene itself is written as handle 0.
RECURSIVE FirstNamed(_, _, _, _)
FirstNamed(ms, sc, name, i) ==
    IF i > Len(sc) THEN Undefined
    ELSE IF NameOf(ms, sc[i]) = name THEN Some(sc[i])
    ELSE FirstNamed(ms, sc, name, i + 1)

\* a lookup that returns the first proxy among the children, whatever its
\* name
getObjectByName_AnyProxy(ms, sc, name) ==
    LET named == {i \in 1..Len(sc) : NameOf(ms, sc[i]) # ""}
    IN  IF named = {} THEN Undefined
        ELSE Some(sc[CHOOSE i \in named : \A j \in named : i <= j])

getObjectByName(ms, sc, name) ==
    IF name = "" THEN Some(0) ELSE FirstNamed(ms, sc, name, 1)

\* a remove that splices without testing the index: splice(-1, 1) takes the
\* last child out when the object is no child
SceneRemove_NoIndexCheck(sc, o) ==
    IF IsSet(o) /\ IndexOf(sc, Val(o)) # 0
        THEN RemoveAt(sc, IndexOf(sc, Val(o)))
        ELSE RemoveAt(sc, Len(sc))

\* Scene.remove(object) -> Object3D.remove: splice the child out if it is a
\* child; for anything else (undefined included) indexOf is -1 and nothing
\* happens
SceneRemove(sc, o) ==
    IF IsSet(o) /\ IndexOf(sc, Val(o)) # 0
        THEN RemoveAt(sc, IndexOf(sc, Val(o)))
        ELSE sc

\* Scene.add(object): append to the children
SceneAdd(sc, h) == Append(sc, h)

\* ------------------------------------------------------------ interpolation
AlphaNum == 1
AlphaDen == 10

\* quotient truncated toward zero
DivT(a, b) == IF a >= 0 THEN a \div b ELSE 0 - ((0 - a) \div b)

\* a Vector3 whose coordinates are NaN
NaNVec == <<"NaN">>

\* Vector3.lerp(v, alpha): this.x += (v.x - this.x) * alpha, per coordinate.
\* The coordinates are read from v.x, v.y, v.z: when v has no such fields
\* (undefined - this.x) or this is NaN already, the result is NaN.
Lerp(cur, tgt) ==
    IF HasXYZ(cur) /\ HasXYZ(tgt)
    THEN [i \in 1..3 |-> cur[i] + DivT((tgt[i] - cur[i]) * AlphaNum, AlphaDen)]
    ELSE NaNVec

\* Quaternion.slerp(q, t) on rotations about one axis, less than pi apart
Slerp(cur, tgt) == cur + DivT((tgt - cur) * AlphaNum, AlphaDen)

\* pose of a freshly constructed Object3D / Mesh
ZeroVec == <<0, 0, 0>>
Identity == 0

NewMesh == [name |-> "", position |-> ZeroVec, quaternion |-> Identity]

\* --------------------------------------------------------------- batches
\* the keys of a payload in Object.keys order: distinct identifiers
KeyOrders(ids) ==
    {<<>>} \cup {<<a>> : a \in ids}
           \cup {ks \in ids \X ids : ks[1] # ks[2]}

\* every payload of 'clients' whose keys are in ids and whose entries
\* { t, p?, q? } are drawn from entries[c] for key c
BatchesOver(ids, entries) ==
    UNION {{[i \in 1..Len(ks) |-> [c |-> ks[i], t |-> es[i].t,
                                   p |-> es[i].p, q |-> es[i].q]]
            : es \in {f \in [1..Len(ks) -> UNION {entries[c] : c \in ids}] :
                        \A i \in 1..Len(ks) : f[i] \in entries[ks[i]]}}
           : ks \in KeyOrders(ids)}

Keys(batch) == {batch[i].c : i \in 1..Len(batch)}

\* the entry of key c in a batch that has it
EntryOf(batch, c) == batch[CHOOSE i \in 1..Len(batch) : batch[i].c = c]

\* payloads followed when the registry is studied on its own: p1 reports
\* every combination of p and q, p2 reports its timestamp only
WideEntries ==
    [c \in Ids |->
        IF c = "p1" THEN [t : TVals, p : Opt(PosVals), q : Opt(QuatVals)]
        ELSE [t : TVals, p : {Undefined}, q : {Undefined}]]

WideBatches == BatchesOver(Ids, WideEntries)

\* payloads followed together with the publisher: one reporting peer
NarrowEntries ==
    [c \in Ids |-> [t : TVals, p : Opt({PosA}), q : Opt(QuatVals)]]

NarrowBatches == BatchesOver({"p1"}, NarrowEntries)

\* payloads of one peer whose p comes in either form: the array [x, y, z]
\* the protocol names, or {x, y, z} as the client's own 'update' carries it
WireEntries ==
    [c \in Ids |-> [t : TVals,
                    p : Opt({PosNear, JsonArray(PosA)}),
                    q : Opt(QuatVals)]]

WireBatches == BatchesOver({"p1"}, WireEntries)

\* payloads of one peer whose t varies, handled at varying local times
\* (the peer's clock may be ahead of the local one)
TimedEntries ==
    [c \in Ids |-> [t : {0, 2}, p : Opt({PosA}), q : Opt(QuatVals)]]

TimedBatches == BatchesOver({"p1"}, TimedEntries)

TimedClockVals == {1, 3}

\* the local object after `new MyObject3D(scene)`: x and z are random
ObjectPoses == {[position |-> <<-150, 0, 50>>, quaternion |-> Identity]}

\* ------------------------------------------------------------- the registry
\* the stamping both branches of the forEach callback share
Stamp(r, e, clock) ==
    [r EXCEPT !.timestamp = clock, !.html = Append(@, <<e.c, clock - e.t>>)]

\* the creating branch of the forEach callback
CreateCube(r, c) ==
    LET h == Len(r.meshes) + 1
    IN  [r EXCEPT !.meshes = Append(@, [NewMesh EXCEPT !.name = c]),
                  !.clientCubes[c] = h,
                  !.scene = SceneAdd(@, h)]

\* the updating branch of the forEach callback
SetTargets(r, e) ==
    [r EXCEPT !.positions[e.c] = IF IsSet(e.p) THEN e.p ELSE @,
              !.quaternions[e.c] = IF IsSet(e.q) THEN e.q ELSE @]

\* a callback that applies the pose of the first sighting
HandleEntry_PoseOnCreate(r, e, clock) ==
    IF r.clientCubes[e.c] = 0
    THEN SetTargets(CreateCube(Stamp(r, e, clock), e.c), e)
    ELSE SetTargets(Stamp(r, e, clock), e)

\* a callback that takes an absent field for "no target"
HandleEntry_AbsentClears(r, e, clock) ==
    IF r.clientCubes[e.c] = 0
    THEN CreateCube(Stamp(r, e, clock), e.c)
    ELSE [Stamp(r, e, clock) EXCEPT !.positions[e.c] = e.p,
                                    !.quaternions[e.c] = e.q]

\* a callback without the presence test
HandleEntry_AlwaysCreate(r, e, clock) ==
    CreateCube(Stamp(r, e, clock), e.c)

\* a callback that keeps a target once it has one
HandleEntry_FirstWins(r, e, clock) ==
    IF r.clientCubes[e.c] = 0
    THEN CreateCube(Stamp(r, e, clock), e.c)
    ELSE [Stamp(r, e, clock) EXCEPT
            !.positions[e.c] = IF IsSet(e.p) /\ ~IsSet(@) THEN e.p ELSE @,
            !.quaternions[e.c] = IF IsSet(e.q) /\ ~IsSet(@) THEN e.q ELSE @]

\* a callback that leaves out the targets of an entry it takes for late
HandleEntry_DropsLate(r, e, clock) ==
    IF r.clientCubes[e.c] = 0
    THEN CreateCube(Stamp(r, e, clock), e.c)
    ELSE IF clock - e.t > 5 THEN Stamp(r, e, clock)
    ELSE SetTargets(Stamp(r, e, clock), e)

\* a callback that also puts the proxy at the carried position
HandleEntry_Teleports(r, e, clock) ==
    IF r.clientCubes[e.c] = 0
    THEN CreateCube(Stamp(r, e, clock), e.c)
    ELSE [SetTargets(Stamp(r, e, clock), e) EXCEPT
            !.meshes[r.clientCubes[e.c]].position =
                IF IsSet(e.p) THEN Val(e.p) ELSE @]

\* the body of the forEach callback of handleClients for one key
HandleEntry(r, e, clock) ==
    IF Stamp(r, e, clock).clientCubes[e.c] = 0
    THEN CreateCube(Stamp(r, e, clock), e.c)
    ELSE SetTargets(Stamp(r, e, clock), e)

RECURSIVE HandleFrom(_, _, _, _)
HandleFrom(r, batch, i, clock) ==
    IF i > Len(batch) THEN r
    ELSE HandleFrom(HandleEntry(r, batch[i], clock), batch, i + 1, clock)

\* a handleClients that takes a batch for the whole roster and drops the
\* records of the identifiers it does not name
handleClients_Prunes(r, batch, clock) ==
    LET h == HandleFrom([r EXCEPT !.html = <<>>], batch, 1, clock)
        gone == {c \in Ids : c \notin Keys(batch)}
    IN  [h EXCEPT
            !.scene = SelectSeq(@, LAMBDA x : NameOf(h.meshes, x) \notin gone),
            !.clientCubes = [c \in Ids |-> IF c \in gone THEN 0 ELSE @[c]],
            !.positions = [c \in Ids |-> IF c \in gone THEN Undefined ELSE @[c]],
            !.quaternions = [c \in Ids |-> IF c \in gone THEN Undefined ELSE @[c]]]

\* handleClients(clients) on the registry r, at local time clock
handleClients(r, batch, clock) ==
    HandleFrom([r EXCEPT !.html = <<>>], batch, 1, clock)

\* handleRemoveClient(id) on the scene children
handleRemoveClient(ms, sc, id) == SceneRemove(sc, getObjectByName(ms, sc, id))

\* a callback that falls back on the local object's pose where a target is
\* missing
MoveCube_DefaultsToObject(m, pos, quat) ==
    [m EXCEPT !.position = IF IsSet(pos) THEN Lerp(@, Val(pos))
                           ELSE Lerp(@, object.position),
              !.quaternion = IF IsSet(quat) THEN Slerp(@, Val(quat))
                             ELSE Slerp(@, object.quaternion)]

\* the body of the forEach callback of updateClientCubes for one key
MoveCube(m, pos, quat) ==
    [m EXCEPT !.position = IF IsSet(pos) THEN Lerp(@, Val(pos)) ELSE @,
              !.quaternion = IF IsSet(quat) THEN Slerp(@, Val(quat)) ELSE @]

\* updateClientCubes(): every key of clientCubes, each acting on its own mesh
updateClientCubes(ms, cubes, pos, quat) ==
    [h \in 1..Len(ms) |->
        IF \E c \in Ids : cubes[c] = h
        THEN LET c == CHOOSE c \in Ids : cubes[c] = h
             IN  MoveCube(ms[h], pos[c], quat[c])
        ELSE ms[h]]

Registry ==
    [meshes |-> meshes, scene |-> scene, clientCubes |-> clientCubes,
     positions |-> positions, quaternions |-> quaternions,
     timestamp |-> timestamp, html |-> pingStatsHtml]

\* the registry after construction
NewRegistry ==
    [meshes |-> <<>>, scene |-> <<GridHandle, ObjectHandle>>,
     clientCubes |-> [c \in Ids |-> 0],
     positions |-> [c \in Ids |-> Undefined],
     quaternions |-> [c \in Ids |-> Undefined],
     timestamp |-> 0, html |-> <<>>]

\* the second run receives the same payloads with other t values, and reads
\* other values from Date.now()
ShiftT(t) == 2 * t + 3
ShiftClock(clock) == 3 * clock + 10
Retimed(batch) == [i \in 1..Len(batch) |-> [batch[i] EXCEPT !.t = ShiftT(@)]]

\* ----------------------------------------------------------------- history
\* type: the handler that ran; id: payload of 'id' / 'removeClient'; batch:
\* payload of 'clients'; created: keys that had no entry in clientCubes;
\* revived: keys that had been removed; was: what the removed identifier was
\* before ("never" seen, "live", "removed"); writes: sinceAdvance before a frame
NoEvent == [type |-> "init", id |-> "", batch |-> <<>>,
            created |-> {}, revived |-> {}, was |-> "", writes |-> <<>>]

\* the entry of c in the batch carries a position and c is registered
Writes(batch, cubes, c) ==
    /\ c \in Keys(batch)
    /\ cubes[c] # 0
    /\ IsSet(EntryOf(batch, c).p)

Min(a, b) == IF a < b THEN a ELSE b

\* -------------------------------------------------------------------- Init
Init ==
    /\ connected = FALSE
    /\ idPending = FALSE
    /\ myId = ""
    /\ timers = 0
    /\ due = 0
    /\ emitted = 0
    /\ lastUpdate = Undefined
    /\ object \in ObjectPoses
    /\ meshes = <<>>
    /\ scene = <<GridHandle, ObjectHandle>>
    /\ clientCubes = [c \in Ids |-> 0]
    /\ positions = [c \in Ids |-> Undefined]
    /\ quaternions = [c \in Ids |-> Undefined]
    /\ timestamp = 0
    /\ pingStatsHtml = <<>>
    /\ frames = 0
    /\ ev = NoEvent
    /\ seen = {}
    /\ removed = {}
    /\ lastP = [c \in Ids |-> Undefined]
    /\ sinceAdvance = [c \in Ids |-> 0]
    /\ twin = NewRegistry

\* ----------------------------------------------------------------- actions
\* a connect handler that starts the interval itself
OnConnect_StartsTimer ==
    /\ ~connected
    /\ connected' = TRUE
    /\ idPending' = TRUE
    /\ timers' = timers + 1
    /\ ev' = [NoEvent EXCEPT !.type = "connect"]
    /\ UNCHANGED <<regVars, diagVars, histVars, myId, due, emitted,
                   lastUpdate, object, frames>>

\* the transport opens a connection; the server then sends 'id' once
OnConnect ==
    /\ ~connected
    /\ connected' = TRUE
    /\ idPending' = TRUE
    /\ ev' = [NoEvent EXCEPT !.type = "connect"]
    /\ UNCHANGED <<pubVars, regVars, diagVars, histVars, object, frames>>

\* a disconnect handler that clears the intervals
OnDisconnect_ClearsTimers ==
    /\ connected
    /\ connected' = FALSE
    /\ idPending' = FALSE
    /\ timers' = 0
    /\ due' = 0
    /\ ev' = [NoEvent EXCEPT !.type = "disconnect"]
    /\ UNCHANGED <<regVars, diagVars, histVars, myId, emitted, lastUpdate,
                   object, frames>>

\* socket.on('disconnect'): logs only
OnDisconnect ==
    /\ connected
    /\ connected' = FALSE
    /\ idPending' = FALSE
    /\ ev' = [NoEvent EXCEPT !.type = "disconnect"]
    /\ UNCHANGED <<pubVars, regVars, diagVars, histVars, object, frames>>

\* an 'id' handler that also builds a proxy for the local identifier
OnId_AddsOwnProxy(id) ==
    /\ connected
    /\ idPending
    /\ timers < MaxTimers
    /\ idPending' = FALSE
    /\ myId' = id
    /\ timers' = timers + 1
    /\ LET r == IF clientCubes[id] = 0 THEN CreateCube(Registry, id)
                ELSE Registry
       IN  /\ meshes' = r.meshes
           /\ scene' = r.scene
           /\ clientCubes' = r.clientCubes
    /\ ev' = [NoEvent EXCEPT !.type = "id", !.id = id]
    /\ UNCHANGED <<diagVars, histVars, positions, quaternions, connected, due,
                   emitted, lastUpdate, object, frames>>

\* socket.on('id'): store the identifier and start one more interval, whose
\* first tick comes a full period later
OnId(id) ==
    /\ connected
    /\ idPending
    /\ timers < MaxTimers
    /\ idPending' = FALSE
    /\ myId' = id
    /\ timers' = timers + 1
    /\ ev' = [NoEvent EXCEPT !.type = "id", !.id = id]
    /\ UNCHANGED <<regVars, diagVars, histVars, connected, due, emitted,
                   lastUpdate, object, frames>>

\* one interval callback: socket.emit('update', {t, p, q})
PublishTick(clock) ==
    /\ due > 0
    /\ due' = due - 1
    /\ emitted' = emitted + 1
    /\ lastUpdate' = Some([t |-> clock, p |-> object.position,
                           q |-> object.quaternion])
    /\ ev' = [NoEvent EXCEPT !.type = "update"]
    /\ UNCHANGED <<connVars, regVars, diagVars, histVars, myId, timers,
                   object, frames>>

\* 50 ms pass: every interval that exists becomes due once more
NewPeriod ==
    /\ due = 0
    /\ due' = timers
    /\ emitted' = 0
    /\ ev' = [NoEvent EXCEPT !.type = "period"]
    /\ UNCHANGED <<connVars, regVars, diagVars, histVars, myId, timers,
                   lastUpdate, object, frames>>

\* socket.on('clients')
OnClients(batch, clock) ==
    /\ connected
    /\ LET r == handleClients(Registry, batch, clock)
       IN  /\ meshes' = r.meshes
           /\ scene' = r.scene
           /\ clientCubes' = r.clientCubes
           /\ positions' = r.positions
           /\ quaternions' = r.quaternions
           /\ timestamp' = r.timestamp
           /\ pingStatsHtml' = r.html
    /\ twin' = handleClients(twin, Retimed(batch), ShiftClock(clock))
    /\ seen' = seen \cup Keys(batch)
    /\ removed' = removed \ Keys(batch)
    /\ lastP' = [c \in Ids |-> IF Writes(batch, clientCubes, c)
                               THEN EntryOf(batch, c).p ELSE lastP[c]]
    /\ sinceAdvance' =
         [c \in Ids |-> IF /\ Writes(batch, clientCubes, c)
                           /\ \/ sinceAdvance[c] = 0
                              \/ EntryOf(batch, c).p # lastP[c]
                        THEN Min(sinceAdvance[c] + 1, 2)
                        ELSE sinceAdvance[c]]
    /\ ev' = [NoEvent EXCEPT !.type = "clients", !.batch = batch,
                !.created = {c \in Keys(batch) : clientCubes[c] = 0},
                !.revived = removed \cap Keys(batch)]
    /\ UNCHANGED <<connVars, pubVars, object, frames>>

\* socket.on('removeClient')
OnRemoveClient(id) ==
    /\ connected
    /\ scene' = handleRemoveClient(meshes, scene, id)
    /\ twin' = [twin EXCEPT
                  !.scene = handleRemoveClient(twin.meshes, twin.scene, id)]
    /\ removed' = IF id \in seen THEN removed \cup {id} ELSE removed
    /\ ev' = [NoEvent EXCEPT !.type = "removeClient", !.id = id,
                !.was = IF id \notin seen THEN "never"
                        ELSE IF id \in removed THEN "removed" ELSE "live"]
    /\ UNCHANGED <<connVars, pubVars, diagVars, meshes, clientCubes,
                   positions, quaternions, seen, lastP, sinceAdvance,
                   object, frames>>

\* one animation frame: Main.animate() -> updateClientCubes(); n bounds the
\* number of frames followed
Frame(n) ==
    /\ frames < n
    /\ frames' = frames + 1
    /\ meshes' = updateClientCubes(meshes, clientCubes, positions, quaternions)
    /\ twin' = [twin EXCEPT
                  !.meshes = updateClientCubes(twin.meshes, twin.clientCubes,
                                               twin.positions, twin.quaternions)]
    /\ sinceAdvance' = [c \in Ids |-> 0]
    /\ ev' = [NoEvent EXCEPT !.type = "frame", !.writes = sinceAdvance]
    /\ UNCHANGED <<connVars, pubVars, diagVars, scene, clientCubes,
                   positions, quaternions, seen, removed, lastP, object>>

Animate == Frame(MaxFrames)

\* the frames of a long run
AnimateRun == Frame(MaxRun)

\* the whole program, with one reporting peer
Next ==
    \/ OnConnect
    \/ OnDisconnect
    \/ \E id \in Ids : OnId(id)
    \/ \E clock \in ClockVals : PublishTick(clock)
    \/ NewPeriod
    \/ \E batch \in NarrowBatches, clock \in ClockVals : OnClients(batch, clock)
    \/ \E id \in Ids : OnRemoveClient(id)
    \/ Animate

Spec == Init /\ [][Next]_vars

\* the whole program under a fair timer: the 50 ms period keeps passing, and
\* an interval callback that is due is run
SpecLive ==
    /\ Init
    /\ [][Next]_vars
    /\ WF_vars(NewPeriod)
    /\ WF_vars(\E clock \in ClockVals : PublishTick(clock))

\* the registry on its own: the events that reach handleClients,
\* handleRemoveClient and updateClientCubes, with two reporting peers.  The
\* publisher's steps (OnId, PublishTick, NewPeriod) leave every variable of
\* the registry unchanged.
NextRegistry ==
    \/ OnConnect
    \/ OnDisconnect
    \/ \E batch \in WideBatches, clock \in ClockVals : OnClients(batch, clock)
    \/ \E id \in Ids : OnRemoveClient(id)
    \/ Animate

SpecRegistry == Init /\ [][NextRegistry]_vars

\* the registry with one peer whose positions arrive in either form, over a
\* long run of frames
NextWire ==
    \/ OnConnect
    \/ \E batch \in WireBatches, clock \in ClockVals : OnClients(batch, clock)
    \/ \E id \in {"p1"} : OnRemoveClient(id)
    \/ AnimateRun

SpecWire == Init /\ [][NextWire]_vars

\* the registry with one peer, under varying t values and local times
NextTimed ==
    \/ OnConnect
    \/ OnDisconnect
    \/ \E batch \in TimedBatches, clock \in TimedClockVals :
          OnClients(batch, clock)
    \/ \E id \in {"p1"} : OnRemoveClient(id)
    \/ Animate

SpecTimed == Init /\ [][NextTimed]_vars

\* ------------------------------------------------------------- properties
\* meshes ever constructed with the name c
NumMeshes(ms, c) == Cardinality({h \in 1..Len(ms) : ms[h].name = c})

\* scene children with the name c
NumInScene(ms, sc, c) ==
    Cardinality({i \in 1..Len(sc) : NameOf(ms, sc[i]) = c})

\* C1: a batch entry for an identifier without record creates exactly one
\* proxy (one more mesh of that name, one more scene child) and sets neither
\* target, whatever the entry carries; a target goes from unset to set only
\* by a 'clients' step whose entry for an already registered identifier
\* carries that field, and takes that field's value.
C1_TwoPhaseCreation ==
    [][\A c \in Ids :
        /\ (ev'.type = "clients" /\ c \in Keys(ev'.batch) /\ clientCubes[c] = 0)
             => /\ clientCubes'[c] # 0
                /\ NumMeshes(meshes', c) = NumMeshes(meshes, c) + 1
                /\ NumInScene(meshes', scene', c)
                     = NumInScene(meshes, scene, c) + 1
                /\ positions'[c] = Undefined
                /\ quaternions'[c] = Undefined
        /\ (~IsSet(positions[c]) /\ IsSet(positions'[c]))
             => /\ ev'.type = "clients"
                /\ c \in Keys(ev'.batch)
                /\ clientCubes[c] # 0
                /\ EntryOf(ev'.batch, c).p = positions'[c]
        /\ (~IsSet(quaternions[c]) /\ IsSet(quaternions'[c]))
             => /\ ev'.type = "clients"
                /\ c \in Keys(ev'.batch)
                /\ clientCubes[c] # 0
                /\ EntryOf(ev'.batch, c).q = quaternions'[c]
      ]_vars

\* a first sighting whose entry carries both p and q has just been handled
C1_Witness ==
    /\ ev.type = "clients"
    /\ \E c \in ev.created :
        /\ IsSet(EntryOf(ev.batch, c).p)
        /\ IsSet(EntryOf(ev.batch, c).q)
        /\ NumInScene(meshes, scene, c) = 1
        /\ positions[c] = Undefined
        /\ quaternions[c] = Undefined

\* C2: an identifier that was removed and has not been in a batch since has
\* no record (no entry in clientCubes for a frame to iterate over) and no
\* proxy in the scene.
C2_RemovedRecordGone ==
    \A id \in removed :
        /\ NumInScene(meshes, scene, id) = 0
        /\ clientCubes[id] = 0

\* C3: a batch with an identifier that had been removed treats it as never
\* seen: afterwards its proxy is in the scene and it has no target.
C3_ReappearanceIsFresh ==
    ev.type = "clients" =>
        \A c \in ev.revived :
            /\ NumInScene(meshes, scene, c) = 1
            /\ positions[c] = Undefined
            /\ quaternions[c] = Undefined

\* C4: 'removeClient' for an identifier never seen in a batch, or removed
\* already, changes nothing of the registry; and in every state removing an
\* identifier twice leaves the scene as removing it once does.
C4_RemoveIdempotent ==
    [][/\ (ev'.type = "removeClient" /\ ev'.was \in {"never", "removed"})
            => UNCHANGED <<meshes, scene, clientCubes, positions, quaternions>>
       /\ \A id \in Ids :
            handleRemoveClient(meshes, handleRemoveClient(meshes, scene, id), id)
                = handleRemoveClient(meshes, scene, id)
      ]_vars

\* a removed identifier has just been removed again, next to a live proxy
C4_Witness ==
    /\ ev.type = "removeClient"
    /\ ev.was = "removed"
    /\ clientCubes[ev.id] # 0
    /\ \E c \in Ids \ {ev.id} : NumInScene(meshes, scene, c) = 1

\* C5: for a registered identifier a batch entry replaces the target position
\* exactly when it carries p and the target orientation exactly when it
\* carries q, each by the carried value, and otherwise leaves it as it was.
C5_AbsentFieldsRetain ==
    [][ev'.type = "clients" =>
        \A c \in Keys(ev'.batch) :
            clientCubes[c] # 0 =>
                /\ positions'[c] = IF IsSet(EntryOf(ev'.batch, c).p)
                                   THEN EntryOf(ev'.batch, c).p
                                   ELSE positions[c]
                /\ quaternions'[c] = IF IsSet(EntryOf(ev'.batch, c).q)
                                     THEN EntryOf(ev'.batch, c).q
                                     ELSE quaternions[c]
      ]_vars

\* an entry with neither p nor q has just been handled for an identifier
\* that holds both targets
C5_Witness ==
    /\ ev.type = "clients"
    /\ \E c \in Keys(ev.batch) \ ev.created :
        /\ ~IsSet(EntryOf(ev.batch, c).p)
        /\ ~IsSet(EntryOf(ev.batch, c).q)
        /\ IsSet(positions[c])
        /\ IsSet(quaternions[c])

\* C6: per identifier at most one mesh was ever constructed, exactly one once
\* the identifier was in a batch, at most one child of the scene carries its
\* name, and its record points at the mesh of that name.
C6_OneProxyPerId ==
    \A id \in Ids :
        /\ NumMeshes(meshes, id) <= 1
        /\ NumInScene(meshes, scene, id) <= 1
        /\ (id \in seen <=> NumMeshes(meshes, id) = 1)
        /\ (clientCubes[id] # 0 => meshes[clientCubes[id]].name = id)

\* a batch has just been handled for an identifier that was registered
\* before: it holds a target, and still has its one proxy
C6_Witness ==
    /\ ev.type = "clients"
    /\ \E c \in Keys(ev.batch) \ ev.created :
        /\ IsSet(positions[c])
        /\ NumMeshes(meshes, c) = 1
        /\ NumInScene(meshes, scene, c) = 1

\* C7: an identifier that was never a key of a batch has no record, no mesh
\* and no child of the scene.
C7_NeverSeenNoProxy ==
    \A id \in Ids \ seen :
        /\ clientCubes[id] = 0
        /\ NumMeshes(meshes, id) = 0
        /\ NumInScene(meshes, scene, id) = 0
        /\ positions[id] = Undefined
        /\ quaternions[id] = Undefined

\* a never-seen identifier is the local identifier and has just been the
\* payload of 'removeClient', after updates, frames and another peer's batch
C7_Witness ==
    /\ ev.type = "removeClient"
    /\ ev.id \notin seen
    /\ myId = ev.id
    /\ IsSet(lastUpdate)
    /\ frames > 0
    /\ seen # {}
    /\ ~idPending

\* C8: as long as myId is empty no interval exists, none is due and no
\* 'update' was ever emitted.
C8_NoUpdateBeforeId ==
    myId = "" =>
        /\ timers = 0
        /\ due = 0
        /\ emitted = 0
        /\ lastUpdate = Undefined
        /\ ev.type # "update"

\* a period has just passed on an open connection whose 'id' is not handled
C8_Witness ==
    /\ ev.type = "period"
    /\ connected
    /\ idPending
    /\ myId = ""

\* C9: at most one interval exists and at most one 'update' is emitted in a
\* period.
C9_OneUpdatePerPeriod ==
    /\ timers <= 1
    /\ emitted <= 1

\* C10: the target position is the position of the last batch entry that
\* carried one for the registered identifier, and a frame moves the proxy from
\* its current position by one lerp toward that position.
C10_LastWriteWins ==
    [][\A c \in Ids :
        /\ positions'[c] = lastP'[c]
        /\ (ev'.type = "frame" /\ clientCubes[c] # 0 /\ IsSet(lastP[c]))
             => meshes'[clientCubes[c]].position
                  = Lerp(meshes[clientCubes[c]].position, Val(lastP[c]))
      ]_vars

\* a frame has just run after the target of a proxy at rest was set and then
\* replaced by a different one: the proxy is one lerp from rest toward the
\* last one
C10_Witness ==
    /\ ev.type = "frame"
    /\ \E c \in Ids :
        /\ ev.writes[c] = 2
        /\ clientCubes[c] # 0
        /\ meshes[clientCubes[c]].position = Lerp(ZeroVec, Val(lastP[c]))
        /\ meshes[clientCubes[c]].position # ZeroVec

Abs(n) == IF n < 0 THEN 0 - n ELSE n

\* b is a plus one tenth of the way from a to t, to the last digit kept
TenthStep(a, b, t) ==
    /\ (t - a) * (b - a) >= 0
    /\ AlphaDen * Abs(b - a) <= AlphaNum * Abs(t - a)
    /\ AlphaNum * Abs(t - a) - AlphaDen * Abs(b - a) < AlphaDen

\* the coordinates a carried position denotes, in either form
Coords(p) == IF HasXYZ(p) THEN p ELSE p[2]

\* C11: a frame moves every proxy in the scene that holds a target position,
\* whichever form the batch carried it in (the claim's example carries
\* arrays), from where it is by one tenth of the remaining distance to the
\* target's coordinates.
C11_TenthOfRemaining ==
    [][ev'.type = "frame" =>
        \A c \in Ids :
            (/\ clientCubes[c] # 0
             /\ NumInScene(meshes, scene, c) = 1
             /\ IsSet(positions[c])
             /\ HasXYZ(meshes[clientCubes[c]].position))
            => /\ HasXYZ(meshes'[clientCubes[c]].position)
               /\ \A i \in 1..3 :
                    TenthStep(meshes[clientCubes[c]].position[i],
                              meshes'[clientCubes[c]].position[i],
                              Coords(Val(positions[c]))[i])
      ]_vars

\* what a frame does to a position: a proxy whose target position has the
\* fields x, y, z, and whose own position is numeric, moves by one tenth of
\* the remaining distance; a target position without these fields (an array)
\* turns the proxy's position into NaN, and a NaN position stays NaN.
TenthOfRemainingXYZ ==
    [][ev'.type = "frame" =>
        \A c \in Ids :
            (clientCubes[c] # 0 /\ IsSet(positions[c]))
            => IF /\ HasXYZ(Val(positions[c]))
                  /\ HasXYZ(meshes[clientCubes[c]].position)
               THEN /\ HasXYZ(meshes'[clientCubes[c]].position)
                    /\ \A i \in 1..3 :
                         TenthStep(meshes[clientCubes[c]].position[i],
                                   meshes'[clientCubes[c]].position[i],
                                   Val(positions[c])[i])
               ELSE meshes'[clientCubes[c]].position = NaNVec
      ]_vars

\* distance below which a coordinate counts as arrived: the step of one
\* tenth is then below the last digit kept
Tolerance == AlphaDen

\* from a to b is an approach of t: not past t, not away from t, and nearer
\* by at least one digit unless a is within tolerance already
Approaches(a, b, t) ==
    /\ (t - a) * (t - b) >= 0
    /\ Abs(t - b) <= Abs(t - a)
    /\ Abs(t - a) >= Tolerance => Abs(t - b) < Abs(t - a)

\* C12: frames leave the targets as they are, and every frame takes each
\* proxy that holds a target nearer to it (position per coordinate toward
\* the target's coordinates, orientation toward the target angle), strictly
\* so until within tolerance, and never past the target.
C12_MonotoneApproach ==
    [][ev'.type = "frame" =>
        /\ UNCHANGED <<positions, quaternions>>
        /\ \A c \in Ids :
            /\ (/\ clientCubes[c] # 0
                /\ IsSet(positions[c])
                /\ HasXYZ(meshes[clientCubes[c]].position))
               => /\ HasXYZ(meshes'[clientCubes[c]].position)
                  /\ \A i \in 1..3 :
                       Approaches(meshes[clientCubes[c]].position[i],
                                  meshes'[clientCubes[c]].position[i],
                                  Coords(Val(positions[c]))[i])
            /\ (clientCubes[c] # 0 /\ IsSet(quaternions[c]))
               => Approaches(meshes[clientCubes[c]].quaternion,
                             meshes'[clientCubes[c]].quaternion,
                             Val(quaternions[c]))
      ]_vars

\* the same for the proxies whose target position has the fields x, y, z and
\* whose own position is numeric
MonotoneApproachXYZ ==
    [][ev'.type = "frame" =>
        /\ UNCHANGED <<positions, quaternions>>
        /\ \A c \in Ids :
            /\ (/\ clientCubes[c] # 0
                /\ IsSet(positions[c])
                /\ HasXYZ(Val(positions[c]))
                /\ HasXYZ(meshes[clientCubes[c]].position))
               => /\ HasXYZ(meshes'[clientCubes[c]].position)
                  /\ \A i \in 1..3 :
                       Approaches(meshes[clientCubes[c]].position[i],
                                  meshes'[clientCubes[c]].position[i],
                                  Val(positions[c])[i])
            /\ (clientCubes[c] # 0 /\ IsSet(quaternions[c]))
               => Approaches(meshes[clientCubes[c]].quaternion,
                             meshes'[clientCubes[c]].quaternion,
                             Val(quaternions[c]))
      ]_vars

\* C13: a 'clients' step leaves every identifier its batch does not name as
\* it was (record, mesh, presence in the scene, both targets); a record is
\* never dropped and a target never unset or changed by any other step than a
\* 'clients' step naming the identifier; and a proxy leaves the scene only by
\* a 'removeClient' step for its identifier.
C13_OnlyRemovalRemoves ==
    [][\A c \in Ids :
        /\ (ev'.type = "clients" /\ c \notin Keys(ev'.batch))
             => /\ clientCubes'[c] = clientCubes[c]
                /\ positions'[c] = positions[c]
                /\ quaternions'[c] = quaternions[c]
                /\ NumInScene(meshes', scene', c) = NumInScene(meshes, scene, c)
                /\ clientCubes[c] # 0
                     => meshes'[clientCubes[c]] = meshes[clientCubes[c]]
        /\ clientCubes[c] # 0 => clientCubes'[c] = clientCubes[c]
        /\ (positions'[c] # positions[c] \/ quaternions'[c] # quaternions[c])
             => (ev'.type = "clients" /\ c \in Keys(ev'.batch))
        /\ NumInScene(meshes', scene', c) < NumInScene(meshes, scene, c)
             => (ev'.type = "removeClient" /\ ev'.id = c)
      ]_vars

\* a batch that does not name p1 has just been handled, after a frame, while
\* p1 has its record, its proxy in the scene and both targets
C13_Witness ==
    /\ ev.type = "clients"
    /\ "p1" \notin Keys(ev.batch)
    /\ frames > 0
    /\ clientCubes["p1"] # 0
    /\ NumInScene(meshes, scene, "p1") = 1
    /\ IsSet(positions["p1"])
    /\ IsSet(quaternions["p1"])

\* C14: a frame leaves the position of a proxy without target position, and
\* the orientation of a proxy without target orientation, as they are, so
\* that such a component is still the one the proxy was created with; a
\* targeted component that is numeric and not within tolerance of its target
\* does change.
C14_UntargetedStaysPut ==
    [][\A c \in Ids :
        /\ (clientCubes'[c] # 0 /\ ~IsSet(positions'[c]))
             => meshes'[clientCubes'[c]].position = ZeroVec
        /\ (clientCubes'[c] # 0 /\ ~IsSet(quaternions'[c]))
             => meshes'[clientCubes'[c]].quaternion = Identity
        /\ (ev'.type = "frame" /\ clientCubes[c] # 0)
             => /\ ~IsSet(positions[c])
                     => meshes'[clientCubes[c]].position
                          = meshes[clientCubes[c]].position
                /\ ~IsSet(quaternions[c])
                     => meshes'[clientCubes[c]].quaternion
                          = meshes[clientCubes[c]].quaternion
                /\ (/\ IsSet(positions[c])
                    /\ HasXYZ(meshes[clientCubes[c]].position)
                    /\ \E i \in 1..3 :
                         Abs(Coords(Val(positions[c]))[i]
                               - meshes[clientCubes[c]].position[i]) >= Tolerance)
                     => meshes'[clientCubes[c]].position
                          # meshes[clientCubes[c]].position
                /\ (/\ IsSet(quaternions[c])
                    /\ Abs(Val(quaternions[c])
                             - meshes[clientCubes[c]].quaternion) >= Tolerance)
                     => meshes'[clientCubes[c]].quaternion
                          # meshes[clientCubes[c]].quaternion
      ]_vars

\* several frames have run on a proxy that holds a target position and no
\* target orientation: its position has left the origin, its orientation is
\* the one it was created with
C14_Witness ==
    /\ ev.type = "frame"
    /\ frames > 2
    /\ \E c \in Ids :
        /\ clientCubes[c] # 0
        /\ IsSet(positions[c])
        /\ ~IsSet(quaternions[c])
        /\ HasXYZ(meshes[clientCubes[c]].position)
        /\ meshes[clientCubes[c]].position # ZeroVec
        /\ meshes[clientCubes[c]].quaternion = Identity

\* C15: once the local identifier is assigned, no 'clients' step creates a
\* record and proxy for it, even when its batch has an entry keyed by it.
C15_NoProxyForLocalId ==
    (ev.type = "clients" /\ myId # "") => myId \notin ev.created

\* C16: the run and its twin, which handle the same events and differ only
\* in the t of every batch entry and in every value of the local clock, have
\* the same meshes (names and poses), scene, records and targets, and their
\* diagnostics name the same identifiers in the same order.
C16_TimestampsInert ==
    /\ twin.meshes = meshes
    /\ twin.scene = scene
    /\ twin.clientCubes = clientCubes
    /\ twin.positions = positions
    /\ twin.quaternions = quaternions
    /\ Len(twin.html) = Len(pingStatsHtml)
    /\ \A i \in 1..Len(pingStatsHtml) : twin.html[i][1] = pingStatsHtml[i][1]

\* a frame has just moved a proxy whose target came with a batch of which
\* the two runs show different latencies, one of them negative
C16_Witness ==
    /\ ev.type = "frame"
    /\ \E c \in Ids :
        /\ clientCubes[c] # 0
        /\ IsSet(positions[c])
        /\ meshes[clientCubes[c]].position # ZeroVec
    /\ Len(pingStatsHtml) > 0
    /\ pingStatsHtml[1][2] < 0
    /\ twin.html[1][2] # pingStatsHtml[1][2]
    /\ twin.timestamp # timestamp

\* C17: from the moment the local identifier is assigned, an 'update' is
\* emitted infinitely often, whatever is handled in between.
C17_PublishesForever ==
    [](myId # "" => []<>(ev.type = "update"))

\* an 'update' has just been emitted on a closed connection, after a batch
\* and a removal were handled
C17_Witness ==
    /\ ev.type = "update"
    /\ myId # ""
    /\ ~connected
    /\ seen # {}
    /\ removed # {}

\* C18: a 'removeClient' step leaves every other identifier as it was: its
\* record, its mesh (name and pose), its presence in the scene and both
\* targets; the children of the scene that do not carry the removed
\* identifier's name stay, in their order.
C18_RemovalTouchesOnlyId ==
    [][ev'.type = "removeClient" =>
        /\ \A c \in Ids \ {ev'.id} :
            /\ clientCubes'[c] = clientCubes[c]
            /\ positions'[c] = positions[c]
            /\ quaternions'[c] = quaternions[c]
            /\ NumInScene(meshes', scene', c) = NumInScene(meshes, scene, c)
            /\ clientCubes[c] # 0
                 => meshes'[clientCubes[c]] = meshes[clientCubes[c]]
        /\ scene' = SelectSeq(scene, LAMBDA h : NameOf(meshes, h) # ev'.id)
      ]_vars

\* p2, whose proxy came into the scene after p1's, has just been removed
\* while p1 has its proxy in the scene, moved by a frame, and its targets
C18_Witness ==
    /\ ev.type = "removeClient"
    /\ ev.was = "live"
    /\ ev.id = "p2"
    /\ NumInScene(meshes, scene, "p2") = 0
    /\ clientCubes["p1"] # 0
    /\ clientCubes["p1"] < clientCubes["p2"]
    /\ NumInScene(meshes, scene, "p1") = 1
    /\ IsSet(positions["p1"])
    /\ IsSet(quaternions["p1"])
    /\ meshes[clientCubes["p1"]].position # ZeroVec

\* C19: a frame changes nothing but poses: the scene, the records, both
\* targets, the number of meshes and their names stay; a 'clients' step
\* leaves every mesh that existed as it was, name and pose.
C19_FramesMoveBatchesAim ==
    [][/\ ev'.type = "frame" =>
            /\ UNCHANGED <<scene, clientCubes, positions, quaternions>>
            /\ Len(meshes') = Len(meshes)
            /\ \A h \in 1..Len(meshes) : meshes'[h].name = meshes[h].name
       /\ ev'.type = "clients" =>
            \A h \in 1..Len(meshes) : meshes'[h] = meshes[h]
      ]_vars

\* a batch has just replaced the target position of a proxy that a frame
\* had moved: the proxy is still where the frame left it
C19_Witness ==
    /\ ev.type = "clients"
    /\ frames > 0
    /\ \E c \in Keys(ev.batch) \ ev.created :
        /\ IsSet(EntryOf(ev.batch, c).p)
        /\ positions[c] = EntryOf(ev.batch, c).p
        /\ meshes[clientCubes[c]].position # ZeroVec
        /\ meshes[clientCubes[c]].position # Val(positions[c])
        /\ meshes[clientCubes[c]].position
              # Lerp(ZeroVec, Val(positions[c]))
====
